---- MODULE Spec2Model ----
(***************************************************************************)
(* Model of PokeAlarm/LocationServices/GMaps.py: the GMaps client for a    *)
(* private Nominatim server.  One client object is shared by a set of      *)
(* workers (greenlets) that call geocode, reverse_geocode and              *)
(* distance_matrix.  Time runs in ticks, TicksPerSecond of them to the     *)
(* second, and it is unbounded: for every timestamp t the program holds,   *)
(* the model keeps the time elapsed since t (time.time() - t), which stops *)
(* growing at one second, since all the code asks of a timestamp is        *)
(* whether a second has passed since.  The language argument only travels  *)
(* into the request parameters and never reaches the client's state, so it *)
(* is left out.                                                            *)
(***************************************************************************)
EXTENDS Integers, Sequences, FiniteSets, TLC

\* ------------------------------------------------------------------ bounds
MaxCalls == 3
TicksPerSecond == 2
\* _queries_per_second is 50 in the source; the model runs it scaled down.
queries_per_second == 2

\* total=retry_count of the Retry policy, retry_count=3 by default.
retry_count == 3

Workers == {1, 2}

\* --------------------------------------------------- the Unknown sentinels
UnknownSMALL == "???"
UnknownREGULAR == "unknown"
UnknownEMPTY == ""

\* ------------------------------------------------------------ tagged values
None == [t |-> "None"]
LatLng(a, b) == [t |-> "latlng", v |-> <<a, b>>]
Dts(d) == [t |-> "dts", v |-> d]
Raised(e) == [t |-> "raise", exc |-> e]
StrKey(s) == [t |-> "str", s |-> s]
TupleKey(p) == [t |-> "tuple", v |-> p]

\* JSON bodies: text that is no JSON, null, a list of values, an object.
NotJson == [t |-> "text"]
JNull == [t |-> "null"]
JStr(s) == [t |-> "jstr", s |-> s]
JList(items) == [t |-> "list", items |-> items]
JObj(o) == [t |-> "obj", o |-> o]

\* ------------------------------------------------------------------ inputs
Addresses == {"Rome", "rome"}

\* str.lower() on the addresses of the model.
Lower(s) ==
    IF s = "Rome" THEN "rome" ELSE s

\* Coordinates in micro-degrees: 12.345670 and 12.345674 north, 76.543210
\* east: two coordinates with one key.  Neither is a rounding tie at 5
\* decimals.
Lats == {12345670, 12345674}
Coordinates == {<<la, 76543210>> : la \in Lats}

Abs(x) == IF x < 0 THEN -x ELSE x

Pad5(n) ==
    LET s == ToString(n)
    IN  CASE n < 10 -> "0000" \o s
          [] n < 100 -> "000" \o s
          [] n < 1000 -> "00" \o s
          [] n < 10000 -> "0" \o s
          [] OTHER -> s

\* '{:.5f}'.format(x) for x given in micro-degrees.
Format5f(x) ==
    LET r == (Abs(x) + 5) \div 10
    IN  (IF x < 0 THEN "-" ELSE "") \o ToString(r \div 100000) \o "."
            \o Pad5(r % 100000)

\* latlng_hist = '{:.5f},{:.5f}'.format(latlng[0], latlng[1])
LatLngHist(latlng) == StrKey(Format5f(latlng[1]) \o "," \o Format5f(latlng[2]))

\* float() of the strings the model's bodies carry, in micro-degrees.
IsNumeric(s) == s \in {"41.9", "12.5"}
Float(s) == IF s = "41.9" THEN 41900000 ELSE 12500000

\* ----------------------------------------------------------- the api key
\* The key as a sequence of tokens: "@" and ":" are the separators the code
\* splits on.  The model runs a key without credentials and one whose
\* credentials hold no ":".
KeyPlain == <<"https://srv">>
KeyNoColon == <<"user", "@", "https://srv">>
Keys == {KeyPlain, KeyNoColon}

Contains(k, sep) == \E i \in 1..Len(k) : k[i] = sep

RECURSIVE Split(_, _)
\* str.split(sep): the list of the pieces between the separators.
Split(k, sep) ==
    IF ~Contains(k, sep) THEN <<k>>
    ELSE LET i == CHOOSE j \in 1..Len(k) :
                      k[j] = sep /\ \A h \in 1..(j - 1) : k[h] # sep
         IN  <<SubSeq(k, 1, i - 1)>> \o Split(SubSeq(k, i + 1, Len(k)), sep)

\* userpassword of _make_request: the part before "@", or False.
UserPassword(k) == IF Contains(k, "@") THEN Split(k, "@")[1] ELSE <<>>
HasUserPassword(k) == Contains(k, "@") /\ UserPassword(k) # <<>>

\* url of _make_request.
Url(k, service) ==
    (IF Contains(k, "@") THEN Split(k, "@")[2] ELSE Split(k, "@")[1])
        \o <<"/", service>>

\* auth=(userpassword.split(":")[0], userpassword.split(":")[1]) raises
\* IndexError when userpassword holds no ":".
AuthRaises(k) == HasUserPassword(k) /\ Len(Split(UserPassword(k), ":")) < 2

\* ------------------------------------------------------ connection manager
\* status_forcelist of _create_session, as the strings the model uses for
\* the outcome of one physical attempt ("timeout": no response arrived).
status_forcelist == {"500", "502", "503", "504"}
AttemptOutcomes == {"200", "404", "503", "timeout"}

\* The attempts the Retry policy has to answer for: a status of the
\* forcelist or a timeout.
Retryable(outcome) == outcome \in status_forcelist \/ outcome = "timeout"

\* A policy that counts the first attempt as a retry.
RetryExhaustedEarly(failed) == failed >= retry_count

\* Retry(total=retry_count): the policy is exhausted once the failed
\* attempts outnumber retry_count (the first attempt is no retry).
RetryExhausted(failed) == failed > retry_count

\* What session.get raises once the policy is exhausted.
ExhaustedError(outcome) == IF outcome = "timeout" THEN "ConnectTimeout" ELSE "RetryError"

\* request.ok
RequestOk(status) == status = "200"

\* ------------------------------------------------------------ rate limiter
\* A deque without maxlen.
DequeAppendUnbounded(win, t) == win \o <<t>>

\* collections.deque(maxlen=N).append: the oldest entry leaves a full deque.
DequeAppend(win, t) ==
    IF Len(win) = queries_per_second THEN Tail(win) \o <<t>> ELSE win \o <<t>>

\* Line 82: elapsed_time = time.time() - self._window[0]
ElapsedTime(win) == win[1]

\* Lines 80-83: the window is full and less than a second has elapsed.
MustSleep(win) ==
    Len(win) = queries_per_second /\ ElapsedTime(win) < TicksPerSecond

\* A tick later: every elapsed time has grown by one tick, up to the second.
Older(ts) == [i \in 1..Len(ts) |-> IF ts[i] < TicksPerSecond THEN ts[i] + 1 ELSE ts[i]]

\* A sleep that wakes one tick late.
SleepTimeLong(elapsed_time) == TicksPerSecond - elapsed_time + 1

\* A sleep that wakes one tick early.
SleepTimeShort(elapsed_time) == TicksPerSecond - elapsed_time - 1

\* Line 85: time.sleep(1 - elapsed_time)
SleepTime(elapsed_time) == TicksPerSecond - elapsed_time

\* ---------------------------------------------------- response handling
Returned(body) == [ok |-> TRUE, body |-> body]
Raise(e) == [ok |-> FALSE, exc |-> e]

\* An error check that knows no recognized error: every error raises.
ErrorCheckStrict(o) ==
    IF "error" \notin DOMAIN o THEN Returned(o) ELSE Raise("ValueError")

\* An error check that takes every error for "Unable to geocode".
ErrorCheckLenient(o) ==
    IF "error" \notin DOMAIN o THEN Returned(o) ELSE Returned(<<>>)

\* Lines 117-123 on a body that is an object.
ErrorCheck(o) ==
    IF "error" \notin DOMAIN o THEN Returned(o)
    ELSE IF o["error"] = "Unable to geocode" THEN Returned(<<>>)
    ELSE Raise("ValueError")

\* Lines 104-123 of _make_request: from the response to the returned body,
\* or to the exception raised.
MakeRequestTail(status, body) ==
    IF ~RequestOk(status)
    THEN IF body.t = "text" THEN Raise("ValueError") ELSE Raise("HTTPError")
    ELSE IF body.t = "text" THEN Raise("ValueError")
    ELSE IF body.t = "list"
         THEN IF body.items = <<>> THEN Raise("IndexError")
              ELSE IF body.items[1].t = "obj" THEN ErrorCheck(body.items[1].o)
              ELSE Raise("TypeError")
    ELSE IF body.t = "obj" THEN ErrorCheck(body.o)
    ELSE Raise("TypeError")

\* The classes an exception of the model is an instance of.
Ancestors(e) ==
    CASE e = "HTTPError" -> {"HTTPError", "RequestException", "Exception"}
      [] e = "ConnectTimeout" ->
            {"ConnectTimeout", "Timeout", "ConnectionError", "RequestException",
             "Exception"}
      [] e = "RetryError" -> {"RetryError", "RequestException", "Exception"}
      [] OTHER -> {e, "Exception"}

\* Except clauses without the final "except Exception".
ReverseHandlersNarrow == <<"HTTPError", "Timeout", "UserWarning">>

\* The except clauses of geocode and of reverse_geocode, in order.
GeocodeHandlers == <<"HTTPError", "Timeout", "UserWarning", "Exception">>
ReverseHandlers == <<"HTTPError", "Timeout", "UserWarning", "Exception">>

Caught(handlers, e) == \E i \in 1..Len(handlers) : handlers[i] \in Ancestors(e)

\* A get that prefers what a later key of the chain holds.
GetLast(d, k, default) ==
    IF default \notin {UnknownEMPTY, UnknownREGULAR} THEN default
    ELSE IF k \in DOMAIN d THEN d[k] ELSE default

\* dict.get(key, default)
Get(d, k, default) == IF k \in DOMAIN d THEN d[k] ELSE default

\* _reverse_geocode_defaults
reverse_geocode_defaults ==
    [street_num |-> UnknownSMALL, street |-> UnknownREGULAR,
     address |-> UnknownREGULAR, address_eu |-> UnknownREGULAR,
     postal |-> UnknownREGULAR, neighborhood |-> UnknownREGULAR,
     sublocality |-> UnknownREGULAR, city |-> UnknownREGULAR,
     county |-> UnknownREGULAR, state |-> UnknownREGULAR,
     country |-> UnknownREGULAR]

\* Lines 194-204: the address details mapped into the DTS.
MapDetails(details) ==
    LET street_num ==
            Get(details, "house_number", Get(details, "house_name", UnknownEMPTY))
        street ==
            Get(details, "road", Get(details, "street",
                Get(details, "city_block", Get(details, "retail", UnknownEMPTY))))
    IN  [street_num |-> street_num,
         street |-> street,
         address |-> street_num \o " " \o street,
         address_eu |-> street \o " " \o street_num,
         postal |-> Get(details, "postcode", UnknownREGULAR),
         country |-> Get(details, "country",
                         Get(details, "country_code", UnknownREGULAR)),
         state |-> Get(details, "region", Get(details, "state", UnknownREGULAR)),
         city |-> Get(details, "village", Get(details, "town",
                      Get(details, "city",
                          Get(details, "municipality", UnknownREGULAR)))),
         county |-> Get(details, "county",
                        Get(details, "state_district", UnknownREGULAR)),
         neighborhood |-> Get(details, "neighbourhood",
                              Get(details, "allotments",
                                  Get(details, "quarter", UnknownREGULAR))),
         sublocality |-> Get(details, "city_district",
                             Get(details, "district",
                                 Get(details, "borough",
                                     Get(details, "suburb",
                                         Get(details, "subdivision",
                                             UnknownREGULAR)))))]

\* The try block of geocode (lines 135-157) from the result of
\* _make_request on: the new mapping, the value returned and the exception
\* the try block raised ("none" when it raised nothing).
Outcome(hist, ret, exc) == [hist |-> hist, ret |-> ret, exc |-> exc]

GeocodeExcept(hist, e) ==
    Outcome(hist, IF Caught(GeocodeHandlers, e) THEN None ELSE Raised(e), e)

\* A geocode that memoizes nothing.
GeocodeMemoizeNothing(hist, address, latlng) == hist

\* Line 144: self._geocode_hist[address] = latlng
GeocodeMemoize(hist, address, latlng) ==
    [k \in DOMAIN hist \cup {StrKey(address)} |->
        IF k = StrKey(address) THEN latlng ELSE hist[k]]

GeocodeTry(hist, address, res) ==
    IF ~res.ok THEN GeocodeExcept(hist, res.exc)
    ELSE IF "lat" \in DOMAIN res.body /\ "lng" \in DOMAIN res.body
         THEN IF IsNumeric(res.body["lat"]) /\ IsNumeric(res.body["lng"])
              THEN LET latlng == LatLng(Float(res.body["lat"]),
                                        Float(res.body["lng"]))
                   IN  Outcome(GeocodeMemoize(hist, address, latlng), latlng,
                               "none")
              ELSE GeocodeExcept(hist, "ValueError")
    ELSE Outcome(GeocodeMemoize(hist, address, None), None, "none")

\* The try block of reverse_geocode (lines 185-219).
ReverseExcept(hist, e) ==
    Outcome(hist,
            IF Caught(ReverseHandlers, e) THEN Dts(reverse_geocode_defaults)
            ELSE Raised(e),
            e)

\* A reverse_geocode that keeps the latest result only.
ReverseMemoizeOnly(hist, latlng, dts) == [k \in {TupleKey(latlng)} |-> dts]

\* A reverse_geocode that memoizes nothing.
ReverseMemoizeNothing(hist, latlng, dts) == hist

\* Line 206: self._reverse_geocode_hist[latlng] = dts
ReverseMemoize(hist, latlng, dts) ==
    [k \in DOMAIN hist \cup {TupleKey(latlng)} |->
        IF k = TupleKey(latlng) THEN dts ELSE hist[k]]

ReverseTry(hist, latlng, res) ==
    IF ~res.ok THEN ReverseExcept(hist, res.exc)
    ELSE IF "address" \in DOMAIN res.body
         THEN IF res.body["address"].t = "obj"
              THEN LET dts == MapDetails(res.body["address"].o)
                   IN  Outcome(ReverseMemoize(hist, latlng, Dts(dts)), Dts(dts),
                               "none")
              ELSE ReverseExcept(hist, "AttributeError")
    ELSE Outcome(ReverseMemoize(hist, latlng, Dts(reverse_geocode_defaults)),
                 Dts(reverse_geocode_defaults), "none")

\* Line 226: dts = {'': Unknown.REGULAR, '': Unknown.REGULAR}
DistanceDefault == Dts([k \in {""} |-> UnknownREGULAR])

\* ------------------------------------------------- what the server answers
Details == {[road |-> "Main St", house_number |-> "42"]}

Objects ==
    {[lat |-> "41.9", lng |-> "12.5"],
     [lat |-> "41.9", lon |-> "12.5"],
     [lat |-> "north", lng |-> "12.5"],
     [error |-> "Unable to geocode"],
     [error |-> "quota exceeded"],
     [address |-> JStr("Main St 42")],
     <<>>}
        \cup {[address |-> JObj(d)] : d \in Details}

Bodies ==
    {NotJson, JList(<<>>), JList(<<JObj([lat |-> "41.9", lng |-> "12.5"])>>)}
        \cup {JObj(o) : o \in Objects}

\* The bodies the model lets a response of a given status carry.
BodiesOf(status) ==
    IF RequestOk(status) THEN Bodies
    ELSE {NotJson, JObj([error |-> "quota exceeded"])}

\* The bodies that carry an error field, and those whose error is not the
\* recognized one.
BodyObject(body) ==
    IF body.t = "obj" THEN body.o
    ELSE IF body.t = "list" /\ body.items # <<>> /\ body.items[1].t = "obj"
         THEN body.items[1].o
    ELSE <<>>
HasError(body) == "error" \in DOMAIN BodyObject(body)
UnableToGeocode(body) ==
    HasError(body) /\ BodyObject(body)["error"] = "Unable to geocode"
OtherError(body) == HasError(body) /\ ~UnableToGeocode(body)

\* What kind of response a call received: a non-success status, a body
\* with an unrecognized error, the "Unable to geocode" body, a body that is
\* no JSON object (or list of one), an object with an address, or any other
\* object.
Answer(status, body) ==
    CASE ~RequestOk(status) -> "status"
      [] OtherError(body) -> "error"
      [] UnableToGeocode(body) -> "unable"
      [] body.t \notin {"obj", "list"} -> "malformed"
      [] body.t = "list" /\ (body.items = <<>> \/ body.items[1].t # "obj") ->
            "malformed"
      [] "address" \in DOMAIN BodyObject(body) -> "address"
      [] OTHER -> "plain"

\* ------------------------------------------------------------------- state
VARIABLES
    key,                  \* self._key
    window,               \* self._window, oldest first
    geocode_hist,         \* self._geocode_hist
    reverse_geocode_hist, \* self._reverse_geocode_hist
    lock,                 \* the guard of synchronize_with: 0 or its holder
    pc,                   \* where each worker stands
    op,                   \* the method each worker is in
    arg,                  \* its argument
    elapsed_time,         \* elapsed_time of _make_request, <<>> until computed
    wake,                 \* how long the worker's time.sleep still lasts
    attempts,             \* the failed attempts its session.get has retried
    response,             \* the response its request received, until it is read
    exc,                  \* the exception its try block raised
    ret,                  \* the value it is about to return
    answer,               \* the kind of response its request received
    appended,             \* how many timestamps its call has recorded
    calls,                \* how many calls were started
    recorded,             \* every timestamp ever put into the window, oldest first
    returned,             \* the lookups of the dispatching calls that have returned
    first                 \* per lookup, the first dispatching call that returned unfailed

client == <<key, window, geocode_hist, reverse_geocode_hist>>
locals == <<op, arg, elapsed_time, wake, attempts, response, exc, ret, answer, appended>>
vars == <<key, window, geocode_hist, reverse_geocode_hist, lock, pc, op,
          arg, elapsed_time, wake, attempts, response, exc, ret, answer, appended, calls,
          recorded,
          returned, first>>

NoArg == [t |-> "none"]
NoResponse == [status |-> "none", body |-> JNull]
Address(a) == [t |-> "address", s |-> a]
Coordinate(c) == [t |-> "latlng", v |-> c]

\* __init__
Init ==
    /\ key \in Keys
    /\ window = <<>>
    /\ geocode_hist = <<>>
    /\ reverse_geocode_hist = <<>>
    /\ lock = 0
    /\ pc = [w \in Workers |-> "idle"]
    /\ op = [w \in Workers |-> "none"]
    /\ arg = [w \in Workers |-> NoArg]
    /\ elapsed_time = [w \in Workers |-> <<>>]
    /\ wake = [w \in Workers |-> 0]
    /\ attempts = [w \in Workers |-> <<>>]
    /\ response = [w \in Workers |-> NoResponse]
    /\ exc = [w \in Workers |-> "none"]
    /\ ret = [w \in Workers |-> None]
    /\ answer = [w \in Workers |-> "none"]
    /\ appended = [w \in Workers |-> 0]
    /\ calls = 0
    /\ recorded = <<>>
    /\ returned = {}
    /\ first = <<>>

\* A tick passes.
Tick ==
    /\ window' = Older(window)
    /\ recorded' = Older(recorded)
    /\ wake' = [w \in Workers |-> IF wake[w] > 0 THEN wake[w] - 1 ELSE 0]
    /\ UNCHANGED <<key, geocode_hist, reverse_geocode_hist, lock, pc, op, arg,
                   elapsed_time, attempts, response, exc, ret, answer, appended, calls, returned,
                   first>>

\* A worker calls geocode(address), reverse_geocode(latlng) or
\* distance_matrix(...): the wrapper of synchronize_with runs first and
\* waits for the guard.  Nothing reads the method's arguments while it
\* waits, so the model draws them when the guard is taken.
Call(w) ==
    /\ pc[w] = "idle"
    /\ calls < MaxCalls
    /\ calls' = calls + 1
    /\ pc' = [pc EXCEPT ![w] = "acquire"]
    /\ UNCHANGED <<client, lock, locals, recorded, returned, first>>

\* The arguments a method can be called with.
Arguments(o) ==
    CASE o = "geocode" -> {Address(x) : x \in Addresses}
      [] o = "reverse_geocode" -> {Coordinate(c) : c \in Coordinates}
      [] OTHER -> {NoArg}

\* A guard that lets a call in while its holder is in the rate limiter.
AcquireDuringRateLimit(w) ==
    /\ pc[w] = "acquire"
    /\ IF lock = 0 THEN TRUE ELSE pc[lock] \in {"request", "sleep", "append"}
    /\ lock' = w
    /\ \E o \in {"geocode", "reverse_geocode", "distance_matrix"} :
          /\ op' = [op EXCEPT ![w] = o]
          /\ \E a \in Arguments(o) : arg' = [arg EXCEPT ![w] = a]
    /\ pc' = [pc EXCEPT ![w] = "check"]
    /\ UNCHANGED <<client, elapsed_time, wake, attempts, response, exc, ret, answer, appended,
                   calls, recorded, returned, first>>

\* A wrapper that enters the method without waiting for the guard.
AcquireUnguarded(w) ==
    /\ pc[w] = "acquire"
    /\ lock' = w
    /\ \E o \in {"geocode", "reverse_geocode", "distance_matrix"} :
          /\ op' = [op EXCEPT ![w] = o]
          /\ \E a \in Arguments(o) : arg' = [arg EXCEPT ![w] = a]
    /\ pc' = [pc EXCEPT ![w] = "check"]
    /\ UNCHANGED <<client, elapsed_time, wake, attempts, response, exc, ret, answer, appended,
                   calls, recorded, returned, first>>

\* @synchronize_with(): the call takes the guard and enters the method.
Acquire(w) ==
    /\ pc[w] = "acquire"
    /\ lock = 0
    /\ lock' = w
    /\ \E o \in {"geocode", "reverse_geocode", "distance_matrix"} :
          /\ op' = [op EXCEPT ![w] = o]
          /\ \E a \in Arguments(o) : arg' = [arg EXCEPT ![w] = a]
    /\ pc' = [pc EXCEPT ![w] = "check"]
    /\ UNCHANGED <<client, elapsed_time, wake, attempts, response, exc, ret, answer, appended,
                   calls, recorded, returned, first>>

\* A geocode whose memoized results go through the rate window too.
GeocodeCheckRecording(w) ==
    /\ pc[w] = "check"
    /\ op[w] = "geocode"
    /\ LET address == Lower(arg[w].s)
       IN  IF StrKey(address) \in DOMAIN geocode_hist
           THEN /\ ret' = [ret EXCEPT ![w] = geocode_hist[StrKey(address)]]
                /\ window' = DequeAppend(window, 0)
                /\ pc' = [pc EXCEPT ![w] = "return"]
           ELSE /\ ret' = ret
                /\ window' = window
                /\ pc' = [pc EXCEPT ![w] = "request"]
    /\ UNCHANGED <<key, geocode_hist, reverse_geocode_hist, lock, op, arg, elapsed_time,
                   wake, attempts, response, exc, answer, appended, calls, recorded,
                   returned, first>>

\* A geocode that never finds a memoized result.
GeocodeCheckMiss(w) ==
    /\ pc[w] = "check"
    /\ op[w] = "geocode"
    /\ pc' = [pc EXCEPT ![w] = "request"]
    /\ UNCHANGED <<client, lock, op, arg, elapsed_time, wake, attempts, response, exc,
                   ret, answer, appended, calls, recorded, returned, first>>

\* geocode, lines 130-132: the lookup in the memoized results.
GeocodeCheck(w) ==
    /\ pc[w] = "check"
    /\ op[w] = "geocode"
    /\ LET address == Lower(arg[w].s)
       IN  IF StrKey(address) \in DOMAIN geocode_hist
           THEN /\ ret' = [ret EXCEPT ![w] = geocode_hist[StrKey(address)]]
                /\ pc' = [pc EXCEPT ![w] = "return"]
           ELSE /\ ret' = ret
                /\ pc' = [pc EXCEPT ![w] = "request"]
    /\ UNCHANGED <<client, lock, op, arg, elapsed_time, wake, attempts, response, exc,
                   answer, appended, calls, recorded, returned, first>>

\* reverse_geocode, lines 179-182: the lookup under latlng_hist.
ReverseCheck(w) ==
    /\ pc[w] = "check"
    /\ op[w] = "reverse_geocode"
    /\ LET latlng_hist == LatLngHist(arg[w].v)
       IN  IF latlng_hist \in DOMAIN reverse_geocode_hist
           THEN /\ ret' = [ret EXCEPT ![w] = reverse_geocode_hist[latlng_hist]]
                /\ pc' = [pc EXCEPT ![w] = "return"]
           ELSE /\ ret' = ret
                /\ pc' = [pc EXCEPT ![w] = "request"]
    /\ UNCHANGED <<client, lock, op, arg, elapsed_time, wake, attempts, response, exc,
                   answer, appended, calls, recorded, returned, first>>

\* A distance_matrix that goes to the dispatcher.
DistanceMatrixDispatching(w) ==
    /\ pc[w] = "check"
    /\ op[w] = "distance_matrix"
    /\ pc' = [pc EXCEPT ![w] = "request"]
    /\ UNCHANGED <<client, lock, op, arg, elapsed_time, wake, attempts, response, exc,
                   ret, answer, appended, calls, recorded, returned, first>>

\* distance_matrix, lines 224-232.
DistanceMatrix(w) ==
    /\ pc[w] = "check"
    /\ op[w] = "distance_matrix"
    /\ ret' = [ret EXCEPT ![w] = DistanceDefault]
    /\ pc' = [pc EXCEPT ![w] = "return"]
    /\ UNCHANGED <<client, lock, op, arg, elapsed_time, wake, attempts, response, exc,
                   answer, appended, calls, recorded, returned, first>>

\* The key a call looks up, tagged with its method.
LookupKey(w) ==
    CASE op[w] = "geocode" -> [op |-> "geocode", key |-> StrKey(Lower(arg[w].s))]
      [] op[w] = "reverse_geocode" ->
            [op |-> "reverse_geocode", key |-> LatLngHist(arg[w].v)]
      [] OTHER -> [op |-> op[w], key |-> StrKey("")]

\* How a call went: answered from the memoized results, failed, or answered
\* by the server.
How(w) ==
    CASE op[w] = "distance_matrix" -> "stub"
      [] appended[w] = 0 -> "hit"
      [] exc[w] # "none" -> "failed"
      [] OTHER -> "ok"

\* _make_request, lines 80-85: the rate limit.
RateLimit(w) ==
    /\ pc[w] = "request"
    /\ elapsed_time' = [elapsed_time EXCEPT ![w] =
                            IF Len(window) = queries_per_second
                            THEN <<ElapsedTime(window)>> ELSE <<>>]
    /\ IF MustSleep(window)
       THEN /\ wake' = [wake EXCEPT ![w] = SleepTime(ElapsedTime(window))]
            /\ pc' = [pc EXCEPT ![w] = "sleep"]
       ELSE /\ wake' = wake
            /\ pc' = [pc EXCEPT ![w] = "append"]
    /\ UNCHANGED <<client, lock, op, arg, attempts, response, exc, ret,
                   answer, appended, calls, recorded, returned, first>>

\* A sleep that never returns.
SleepForever(w) ==
    /\ pc[w] = "sleep"
    /\ wake[w] > TicksPerSecond
    /\ pc' = [pc EXCEPT ![w] = "append"]
    /\ UNCHANGED <<client, lock, locals, calls, recorded, returned, first>>

\* time.sleep returns once the time asked for has passed.
Sleep(w) ==
    /\ pc[w] = "sleep"
    /\ wake[w] = 0
    /\ pc' = [pc EXCEPT ![w] = "append"]
    /\ UNCHANGED <<client, lock, locals, calls, recorded, returned, first>>

\* The rest of the call once _make_request has returned or raised: the try
\* block of the method, its except clauses and the value to return.
Finish(w, res) ==
    /\ IF op[w] = "geocode"
       THEN LET out == GeocodeTry(geocode_hist, Lower(arg[w].s), res)
            IN  /\ geocode_hist' = out.hist
                /\ ret' = [ret EXCEPT ![w] = out.ret]
                /\ exc' = [exc EXCEPT ![w] = out.exc]
                /\ UNCHANGED reverse_geocode_hist
       ELSE LET out == ReverseTry(reverse_geocode_hist, arg[w].v, res)
            IN  /\ reverse_geocode_hist' = out.hist
                /\ ret' = [ret EXCEPT ![w] = out.ret]
                /\ exc' = [exc EXCEPT ![w] = out.exc]
                /\ UNCHANGED geocode_hist
    /\ pc' = [pc EXCEPT ![w] = "return"]

\* _make_request, lines 88-100: the url, the timestamp put into the window
\* (time.time(): nothing has elapsed since it) and the arguments of
\* session.get.
WindowAppend(w) ==
    /\ pc[w] = "append"
    /\ window' = DequeAppend(window, 0)
    /\ recorded' = Append(recorded, 0)
    /\ appended' = [appended EXCEPT ![w] = @ + 1]
    /\ IF AuthRaises(key)
       THEN Finish(w, Raise("IndexError"))
       ELSE /\ pc' = [pc EXCEPT ![w] = "send"]
            /\ UNCHANGED <<geocode_hist, reverse_geocode_hist, ret, exc>>
    /\ UNCHANGED <<key, lock, op, arg, elapsed_time, wake, attempts, response, answer, calls,
                   returned, first>>

\* A retry that goes through the rate limiter's window again.
SendRetryRecording(w, outcome) ==
    /\ attempts' = [attempts EXCEPT ![w] = Append(@, outcome)]
    /\ window' = DequeAppend(window, 0)
    /\ recorded' = Append(recorded, 0)
    /\ appended' = [appended EXCEPT ![w] = @ + 1]
    /\ UNCHANGED <<key, geocode_hist, reverse_geocode_hist, pc, response, exc, ret>>

\* session.get under the Retry policy of _create_session: a failed attempt
\* the policy still covers is retried.
SendRetry(w, outcome) ==
    /\ attempts' = [attempts EXCEPT ![w] = Append(@, outcome)]
    /\ UNCHANGED <<client, pc, response, exc, ret, appended, recorded>>

\* A failure that takes the call's timestamp out of the window again.
SendExhaustedForgetting(w, outcome) ==
    /\ Finish(w, Raise(ExhaustedError(outcome)))
    /\ attempts' = [attempts EXCEPT ![w] = <<>>]
    /\ window' = SubSeq(window, 1, Len(window) - 1)
    /\ UNCHANGED <<key, response, appended, recorded>>

\* The policy is exhausted: session.get raises.
SendExhausted(w, outcome) ==
    /\ Finish(w, Raise(ExhaustedError(outcome)))
    /\ attempts' = [attempts EXCEPT ![w] = <<>>]
    /\ UNCHANGED <<key, window, response, appended, recorded>>

\* A response arrives and session.get returns it.
SendResponse(w, outcome) ==
    /\ \E body \in BodiesOf(outcome) :
          response' = [response EXCEPT ![w] = [status |-> outcome, body |-> body]]
    /\ attempts' = [attempts EXCEPT ![w] = <<>>]
    /\ pc' = [pc EXCEPT ![w] = "receive"]
    /\ UNCHANGED <<client, exc, ret, appended, recorded>>

\* session.get, lines 100-103: one physical attempt of the request.
Send(w) ==
    /\ pc[w] = "send"
    /\ \E outcome \in AttemptOutcomes :
          IF Retryable(outcome)
          THEN IF RetryExhausted(Len(attempts[w]) + 1)
               THEN SendExhausted(w, outcome)
               ELSE SendRetry(w, outcome)
          ELSE SendResponse(w, outcome)
    /\ UNCHANGED <<lock, op, arg, elapsed_time, wake, answer, calls, returned,
                   first>>

\* _make_request, lines 104-123, and the method's use of what it returns.
Receive(w) ==
    /\ pc[w] = "receive"
    /\ Finish(w, MakeRequestTail(response[w].status, response[w].body))
    /\ response' = [response EXCEPT ![w] = NoResponse]
    /\ answer' = [answer EXCEPT ![w] = Answer(response[w].status, response[w].body)]
    /\ UNCHANGED <<key, window, lock, op, arg, elapsed_time, wake, attempts, appended, calls,
                   recorded, returned, first>>

\* The call returns (or raises) and synchronize_with gives the guard back.
Return(w) ==
    /\ pc[w] = "return"
    /\ lock' = 0
    /\ returned' = IF How(w) \in {"ok", "failed"} THEN returned \cup {LookupKey(w)}
                   ELSE returned
    /\ first' =
          IF How(w) = "ok" /\ LookupKey(w) \notin DOMAIN first
          THEN [k \in DOMAIN first \cup {LookupKey(w)} |->
                   IF k = LookupKey(w) THEN [answer |-> answer[w], ret |-> ret[w]]
                   ELSE first[k]]
          ELSE first
    /\ pc' = [pc EXCEPT ![w] = "idle"]
    /\ op' = [op EXCEPT ![w] = "none"]
    /\ arg' = [arg EXCEPT ![w] = NoArg]
    /\ elapsed_time' = [elapsed_time EXCEPT ![w] = <<>>]
    /\ wake' = [wake EXCEPT ![w] = 0]
    /\ attempts' = [attempts EXCEPT ![w] = <<>>]
    /\ response' = [response EXCEPT ![w] = NoResponse]
    /\ exc' = [exc EXCEPT ![w] = "none"]
    /\ ret' = [ret EXCEPT ![w] = None]
    /\ answer' = [answer EXCEPT ![w] = "none"]
    /\ appended' = [appended EXCEPT ![w] = 0]
    /\ UNCHANGED <<client, calls, recorded>>

Next ==
    \/ Tick
    \/ \E w \in Workers :
          \/ Call(w)
          \/ Acquire(w)
          \/ GeocodeCheck(w)
          \/ ReverseCheck(w)
          \/ DistanceMatrix(w)
          \/ RateLimit(w)
          \/ Sleep(w)
          \/ WindowAppend(w)
          \/ Send(w)
          \/ Receive(w)
          \/ Return(w)

Spec == Init /\ [][Next]_vars

\* ------------------------------------------- the mapping of address details
\* The keys lines 194-204 look for in the address object.
DetailKeys ==
    {"house_number", "house_name", "road", "street", "city_block", "retail",
     "postcode", "country", "country_code", "region", "state", "village",
     "town", "city", "municipality", "county", "state_district",
     "neighbourhood", "allotments", "quarter", "city_district", "district",
     "borough", "suburb", "subdivision"}

\* What the server holds under a key.
DetailValue(k) ==
    CASE k = "road" -> "Main St"
      [] k = "house_number" -> "42"
      [] OTHER -> k

\* The address objects with no key, one key or two keys.
DetailsInputs ==
    {<<>>} \cup {[k \in {a, b} |-> DetailValue(k)] : a \in DetailKeys, b \in DetailKeys}

\* A reverse_geocode call whose request has just been answered 200 with an
\* address object.
InitDetails ==
    /\ key = KeyPlain
    /\ window = <<0>>
    /\ geocode_hist = <<>>
    /\ reverse_geocode_hist = <<>>
    /\ lock = 1
    /\ pc = [w \in Workers |-> IF w = 1 THEN "receive" ELSE "idle"]
    /\ op = [w \in Workers |-> IF w = 1 THEN "reverse_geocode" ELSE "none"]
    /\ \E c \in Coordinates :
          arg = [w \in Workers |-> IF w = 1 THEN Coordinate(c) ELSE NoArg]
    /\ elapsed_time = [w \in Workers |-> <<>>]
    /\ wake = [w \in Workers |-> 0]
    /\ attempts = [w \in Workers |-> <<>>]
    /\ \E d \in DetailsInputs :
          response = [w \in Workers |->
                         IF w = 1
                         THEN [status |-> "200", body |-> JObj([address |-> JObj(d)])]
                         ELSE NoResponse]
    /\ exc = [w \in Workers |-> "none"]
    /\ ret = [w \in Workers |-> None]
    /\ answer = [w \in Workers |-> "none"]
    /\ appended = [w \in Workers |-> IF w = 1 THEN 1 ELSE 0]
    /\ calls = 1
    /\ recorded = <<0>>
    /\ returned = {}
    /\ first = <<>>

NextDetails == \E w \in Workers : Receive(w) \/ Return(w)

SpecDetails == InitDetails /\ [][NextDetails]_vars

\* ------------------------------------------------------- concurrent callers
\* Every worker has called the fresh client and none has the guard yet.
InitConcurrent ==
    /\ key \in Keys
    /\ window = <<>>
    /\ geocode_hist = <<>>
    /\ reverse_geocode_hist = <<>>
    /\ lock = 0
    /\ pc = [w \in Workers |-> "acquire"]
    /\ op = [w \in Workers |-> "none"]
    /\ arg = [w \in Workers |-> NoArg]
    /\ elapsed_time = [w \in Workers |-> <<>>]
    /\ wake = [w \in Workers |-> 0]
    /\ attempts = [w \in Workers |-> <<>>]
    /\ response = [w \in Workers |-> NoResponse]
    /\ exc = [w \in Workers |-> "none"]
    /\ ret = [w \in Workers |-> None]
    /\ answer = [w \in Workers |-> "none"]
    /\ appended = [w \in Workers |-> 0]
    /\ calls = Cardinality(Workers)
    /\ recorded = <<>>
    /\ returned = {}
    /\ first = <<>>

SpecConcurrent == InitConcurrent /\ [][Next]_vars

\* ------------------------------------------------------------- scheduling
\* What a worker does once it has called: the steps of the method.
Step(w) ==
    \/ GeocodeCheck(w)
    \/ ReverseCheck(w)
    \/ DistanceMatrix(w)
    \/ RateLimit(w)
    \/ Sleep(w)
    \/ WindowAppend(w)
    \/ Send(w)
    \/ Receive(w)
    \/ Return(w)

\* A busy client: its window is full of timestamps just recorded by
\* geocode calls that failed, and every worker has called and waits for the
\* guard.
InitBusy ==
    /\ key \in Keys
    /\ window = [i \in 1..queries_per_second |-> 0]
    /\ geocode_hist = <<>>
    /\ reverse_geocode_hist = <<>>
    /\ lock = 0
    /\ pc = [w \in Workers |-> "acquire"]
    /\ op = [w \in Workers |-> "none"]
    /\ arg = [w \in Workers |-> NoArg]
    /\ elapsed_time = [w \in Workers |-> <<>>]
    /\ wake = [w \in Workers |-> 0]
    /\ attempts = [w \in Workers |-> <<>>]
    /\ response = [w \in Workers |-> NoResponse]
    /\ exc = [w \in Workers |-> "none"]
    /\ ret = [w \in Workers |-> None]
    /\ answer = [w \in Workers |-> "none"]
    /\ appended = [w \in Workers |-> 0]
    /\ calls = queries_per_second + Cardinality(Workers)
    /\ recorded = [i \in 1..queries_per_second |-> 0]
    /\ returned = {[op |-> "geocode", key |-> StrKey(Lower(a))] : a \in Addresses}
    /\ first = <<>>

\* The calls that were started run; no further call is made.
NextRun == Tick \/ \E w \in Workers : Acquire(w) \/ Step(w)

\* Time passes, a worker that can take a step of its method takes one (the
\* request it waits for is answered or times out), and a worker waiting for
\* a guard that is free again and again gets it.
Fairness ==
    /\ WF_vars(Tick)
    /\ \A w \in Workers : WF_vars(Step(w)) /\ SF_vars(Acquire(w))

FairSpec == InitBusy /\ [][NextRun]_vars /\ Fairness

\* ------------------------------------------------------------- properties
\* Where a call stands between its cache check and its return.
InBody == {"check", "request", "sleep", "append", "send", "receive", "return"}

\* Where a call stands once it has gone to the dispatcher, _make_request.
Dispatching == {"request", "sleep", "append", "send", "receive"}

\* What a method returns when something happens.
DefaultOf(o) == IF o = "geocode" THEN None ELSE Dts(reverse_geocode_defaults)

\* The key the call of worker w looks up is in no memoized result.
CacheMiss(w) ==
    IF op[w] = "geocode"
    THEN StrKey(Lower(arg[w].s)) \notin DOMAIN geocode_hist
    ELSE LatLngHist(arg[w].v) \notin DOMAIN reverse_geocode_hist

\* Worker w reads the response of its request in this step.
Reads(w) == pc[w] = "receive" /\ pc'[w] = "return"

\* C1, as the claim states it: once a geocode call for an address has gone
\* to the dispatcher and returned, with whatever outcome, no later geocode
\* call for that address goes to the dispatcher.
CE_C1 ==
    \A w \in Workers :
        op[w] = "geocode" /\ pc[w] \in Dispatching => LookupKey(w) \notin returned

\* C1: once a geocode call for an address has returned without failure
\* (a match or no match), no later geocode call for that address goes to
\* the dispatcher, and each returns the value that first call returned.
T_C1 ==
    \A w \in Workers :
        op[w] = "geocode" /\ LookupKey(w) \in DOMAIN first =>
            /\ pc[w] \notin Dispatching
            /\ pc[w] = "return" => ret[w] = first[LookupKey(w)].ret

W_C1 ==
    \E w \in Workers :
        /\ op[w] = "geocode"
        /\ pc[w] = "return"
        /\ appended[w] = 0
        /\ LookupKey(w) \in DOMAIN first
        /\ first[LookupKey(w)].answer = "plain"
        /\ ret[w] = first[LookupKey(w)].ret
        /\ ret[w] # None

\* C2, as the claim states it: once a reverse_geocode call has returned
\* without failure, no later reverse_geocode call whose coordinate formats
\* to the same 5-decimal key goes to the dispatcher.
CE_C2 ==
    \A w \in Workers :
        op[w] = "reverse_geocode" /\ LookupKey(w) \in DOMAIN first =>
            pc[w] \notin Dispatching

\* C3: no more than queries_per_second timestamps were recorded within the
\* last second, and every timestamp that has queries_per_second or more
\* timestamps recorded after it is a full second old.
T_C3 ==
    /\ Cardinality({i \in 1..Len(recorded) : recorded[i] < TicksPerSecond})
           <= queries_per_second
    /\ \A i \in 1..Len(recorded) :
          i + queries_per_second <= Len(recorded) => recorded[i] >= TicksPerSecond

W_C3 ==
    \E w \in Workers :
        /\ pc[w] = "send"
        /\ op[w] = "reverse_geocode"
        /\ \E k \in returned : k.op = "geocode"
        /\ elapsed_time[w] # <<>>
        /\ elapsed_time[w][1] < TicksPerSecond
        /\ Len(recorded) > queries_per_second
        /\ recorded[Len(recorded)] = 0
        /\ recorded[Len(recorded) - queries_per_second] = TicksPerSecond

\* C4: at most one call is inside the body of geocode or reverse_geocode
\* at a time, and it is the holder of the one guard both methods share.
T_C4 ==
    /\ Cardinality({w \in Workers : pc[w] \in InBody}) <= 1
    /\ \A w \in Workers : pc[w] \in InBody => lock = w

W_C4 ==
    \E w, v \in Workers :
        /\ pc[w] = "send"
        /\ op[w] = "geocode"
        /\ pc[v] = "acquire"
        /\ recorded # <<>>
        /\ \E k \in returned : k.op = "reverse_geocode"

\* C5: a call never raises; when its request failed, geocode returns None
\* and reverse_geocode returns the defaults.
T_C5 ==
    \A w \in Workers :
        pc[w] = "return" =>
            /\ ret[w].t # "raise"
            /\ exc[w] # "none" => ret[w] = DefaultOf(op[w])

W_C5 ==
    \E w \in Workers :
        /\ pc[w] = "return"
        /\ op[w] = "reverse_geocode"
        /\ exc[w] = "RetryError"
        /\ ret[w] = Dts(reverse_geocode_defaults)

\* C6: a geocode call that received the "Unable to geocode" body returns
\* None and leaves None memoized under the lower-cased address; from then
\* on no geocode call for that address goes to the dispatcher, and each
\* returns None.
T_C6 ==
    \A w \in Workers :
        op[w] = "geocode" =>
            LET address == StrKey(Lower(arg[w].s))
            IN  /\ pc[w] = "return" /\ answer[w] = "unable" =>
                      /\ exc[w] = "none"
                      /\ ret[w] = None
                      /\ address \in DOMAIN geocode_hist
                      /\ geocode_hist[address] = None
                /\ (/\ LookupKey(w) \in DOMAIN first
                    /\ first[LookupKey(w)].answer = "unable") =>
                      /\ pc[w] \notin Dispatching
                      /\ address \in DOMAIN geocode_hist
                      /\ geocode_hist[address] = None
                      /\ pc[w] = "return" => ret[w] = None

W_C6 ==
    \E w \in Workers :
        /\ op[w] = "geocode"
        /\ pc[w] = "return"
        /\ appended[w] = 0
        /\ LookupKey(w) \in DOMAIN first
        /\ first[LookupKey(w)].answer = "unable"
        /\ ret[w] = None

\* C7: a call that reads a body with an error other than "Unable to
\* geocode" returns its default, changes neither mapping and leaves its key
\* a miss, so that the next call with that key goes to the dispatcher.
T_C7 ==
    [][\A w \in Workers :
          Reads(w) /\ OtherError(response[w].body) =>
              /\ geocode_hist' = geocode_hist
              /\ reverse_geocode_hist' = reverse_geocode_hist
              /\ ret'[w] = DefaultOf(op[w])
              /\ exc'[w] # "none"
              /\ CacheMiss(w)']_vars

W_C7 ==
    \E w \in Workers :
        /\ pc[w] = "return"
        /\ op[w] = "geocode"
        /\ answer[w] = "error"
        /\ LookupKey(w) \in returned
        /\ ret[w] = None
        /\ CacheMiss(w)

\* C8, as the claim states it: a reverse_geocode call that reads a
\* successful response without an address returns the defaults and leaves
\* the reverse mapping as it was.
CE_C8 ==
    [][\A w \in Workers :
          (/\ Reads(w)
           /\ op[w] = "reverse_geocode"
           /\ Answer(response[w].status, response[w].body) \in {"unable", "plain"}) =>
              /\ ret'[w] = Dts(reverse_geocode_defaults)
              /\ reverse_geocode_hist' = reverse_geocode_hist]_vars

\* C8: a reverse_geocode call that reads a successful response without an
\* address returns the defaults and memoizes them under the coordinate pair
\* it was called with; the other entries stay.
T_C8 ==
    [][\A w \in Workers :
          (/\ Reads(w)
           /\ op[w] = "reverse_geocode"
           /\ Answer(response[w].status, response[w].body) \in {"unable", "plain"}) =>
              LET latlng == TupleKey(arg[w].v)
              IN  /\ ret'[w] = Dts(reverse_geocode_defaults)
                  /\ exc'[w] = "none"
                  /\ DOMAIN reverse_geocode_hist' =
                         DOMAIN reverse_geocode_hist \cup {latlng}
                  /\ reverse_geocode_hist'[latlng] = Dts(reverse_geocode_defaults)
                  /\ \A k \in DOMAIN reverse_geocode_hist \ {latlng} :
                         reverse_geocode_hist'[k] = reverse_geocode_hist[k]]_vars

W_C8 ==
    \E w \in Workers :
        /\ pc[w] = "return"
        /\ op[w] = "reverse_geocode"
        /\ answer[w] = "unable"
        /\ ret[w] = Dts(reverse_geocode_defaults)
        /\ TupleKey(arg[w].v) \in DOMAIN reverse_geocode_hist
        /\ reverse_geocode_hist[TupleKey(arg[w].v)] = Dts(reverse_geocode_defaults)

\* C9, as the claim states it: after three attempts that received 503, the
\* call accepts no 200.
CE_C9 ==
    [][\A w \in Workers :
          pc[w] = "send" /\ attempts[w] = <<"503", "503", "503">> =>
              ~(pc'[w] = "receive" /\ response'[w].status = "200")]_vars

\* C9: a call makes at most retry_count + 1 attempts.  While fewer than
\* retry_count attempts have failed, a failing attempt does not end the
\* call; once retry_count attempts have failed, the next attempt ends it:
\* with the response if one arrives, and with the connection manager's
\* error and the method's default if it fails too.
T_C9 ==
    [][\A w \in Workers :
          pc[w] = "send" =>
              /\ Len(attempts[w]) <= retry_count
              /\ Len(attempts[w]) < retry_count => pc'[w] \in {"send", "receive"}
              /\ Len(attempts[w]) = retry_count =>
                    \/ pc'[w] = "send" /\ attempts'[w] = attempts[w]
                    \/ pc'[w] = "receive"
                    \/ /\ pc'[w] = "return"
                       /\ exc'[w] \in {"RetryError", "ConnectTimeout"}
                       /\ ret'[w] = DefaultOf(op[w])]_vars

W_C9 ==
    \E w \in Workers :
        /\ pc[w] = "return"
        /\ op[w] = "geocode"
        /\ exc[w] = "RetryError"
        /\ appended[w] = 1
        /\ ret[w] = None

\* C10: a call that goes to the dispatcher records no timestamp before the
\* rate limit has let it pass, exactly one before its request is sent, and
\* none while the connection manager retries.
T_C10 ==
    \A w \in Workers :
        /\ pc[w] \in {"check", "request", "sleep", "append"} =>
              appended[w] = 0 /\ attempts[w] = <<>>
        /\ pc[w] \in {"send", "receive"} => appended[w] = 1
        /\ pc[w] = "return" => appended[w] <= 1
        /\ pc[w] = "return" /\ (exc[w] # "none" \/ answer[w] # "none") =>
              appended[w] = 1

W_C10 ==
    \E w \in Workers :
        /\ pc[w] = "send"
        /\ Len(attempts[w]) = retry_count
        /\ appended[w] = 1
        /\ window # <<>>
        /\ window[Len(window)] > 0

\* C11: a key of the address mapping or of the coordinate mapping is a key
\* of it after every step, whatever call takes the step and however it
\* ends.
T_C11 ==
    [][/\ DOMAIN geocode_hist \subseteq DOMAIN geocode_hist'
       /\ DOMAIN reverse_geocode_hist \subseteq DOMAIN reverse_geocode_hist']_vars

W_C11 ==
    \E w \in Workers :
        /\ pc[w] = "return"
        /\ op[w] = "geocode"
        /\ exc[w] # "none"
        /\ DOMAIN geocode_hist = {}
        /\ Cardinality(DOMAIN reverse_geocode_hist) = 2

\* C12: the window never holds more than queries_per_second timestamps,
\* and it holds the latest timestamps recorded, in the order they were
\* recorded: an append to the full window evicts the oldest and nothing
\* else.
T_C12 ==
    /\ Len(window) <= queries_per_second
    /\ Len(window) <= Len(recorded)
    /\ window = SubSeq(recorded, Len(recorded) - Len(window) + 1, Len(recorded))
    /\ Len(recorded) >= queries_per_second => Len(window) = queries_per_second

W_C12 ==
    /\ Len(recorded) > queries_per_second
    /\ Len(window) = queries_per_second
    /\ window[Len(window)] = 0
    /\ recorded[1] > window[1]

\* C13: a call sleeps in the rate limiter only when it found the window
\* full with less than a second elapsed since the oldest timestamp, and its
\* sleep ends exactly when a second has elapsed since that timestamp; such
\* a call records its timestamp no sooner; any other call has no sleep to
\* wait for.
T_C13 ==
    \A w \in Workers :
        /\ pc[w] = "sleep" =>
              /\ Len(window) = queries_per_second
              /\ elapsed_time[w] # <<>>
              /\ elapsed_time[w][1] < TicksPerSecond
              /\ wake[w] + window[1] = TicksPerSecond
        /\ (/\ pc[w] = "append"
            /\ elapsed_time[w] # <<>>
            /\ elapsed_time[w][1] < TicksPerSecond) => window[1] = TicksPerSecond
        /\ wake[w] > 0 => pc[w] = "sleep"
        /\ pc[w] \in {"append", "send", "receive"} /\ elapsed_time[w] = <<>> =>
              Len(recorded) - appended[w] < queries_per_second

W_C13 ==
    \E w \in Workers :
        /\ pc[w] = "sleep"
        /\ elapsed_time[w] = <<0>>
        /\ wake[w] = 0
        /\ window[1] = TicksPerSecond

\* C14: with several workers calling, at most one call is in the rate
\* limiter (reading the window, sleeping, recording its timestamp); the
\* oldest timestamp a call read is still the oldest when the call records
\* its own; and never more than queries_per_second timestamps are younger
\* than a second.
T_C14 ==
    /\ Cardinality({w \in Workers : pc[w] \in {"request", "sleep", "append"}}) <= 1
    /\ \A w \in Workers :
          pc[w] \in {"sleep", "append"} /\ elapsed_time[w] # <<>> =>
              /\ Len(window) = queries_per_second
              /\ window[1] >= elapsed_time[w][1]
    /\ \A w \in Workers :
          pc[w] \in {"send", "receive"} =>
              \A v \in Workers \ {w} : pc[v] \notin Dispatching
    /\ Cardinality({i \in DOMAIN recorded : recorded[i] < TicksPerSecond})
           <= queries_per_second

W_C14 ==
    \E w, v \in Workers :
        /\ pc[w] = "append"
        /\ op[w] = "reverse_geocode"
        /\ pc[v] = "acquire"
        /\ window # <<>>
        /\ window[Len(window)] = 0
        /\ \E k \in returned : k.op = "geocode"

\* C15: a distance_matrix call never goes to the dispatcher: every step it
\* takes leaves the window, the timestamps recorded and both mappings as
\* they were, and it returns the one fixed default.
T_C15 ==
    [][\A w \in Workers :
          op[w] = "distance_matrix" /\ pc'[w] # pc[w] =>
              /\ pc'[w] \in {"return", "idle"}
              /\ appended'[w] = 0
              /\ window' = window
              /\ recorded' = recorded
              /\ geocode_hist' = geocode_hist
              /\ reverse_geocode_hist' = reverse_geocode_hist
              /\ pc'[w] = "return" =>
                    ret'[w] = Dts([k \in {""} |-> UnknownREGULAR])]_vars

W_C15 ==
    \E w \in Workers :
        /\ pc[w] = "return"
        /\ op[w] = "distance_matrix"
        /\ ret[w] = Dts([k \in {""} |-> UnknownREGULAR])
        /\ appended[w] = 0
        /\ Len(window) = 1
        /\ Len(recorded) = 1
        /\ DOMAIN geocode_hist # {}

\* C16: reverse_geocode maps an address object field by field, each field
\* taking what the first key of its chain that the object holds stands for
\* and its sentinel when the object holds none of them; address is the
\* street number, a space and the street, address_eu the other way round.
\* For {road: "Main St", house_number: "42"} that is "42 Main St" and
\* "Main St 42", every other field unknown.
Chains ==
    [street_num |-> <<"house_number", "house_name">>,
     street |-> <<"road", "street", "city_block", "retail">>,
     postal |-> <<"postcode">>,
     country |-> <<"country", "country_code">>,
     state |-> <<"region", "state">>,
     city |-> <<"village", "town", "city", "municipality">>,
     county |-> <<"county", "state_district">>,
     neighborhood |-> <<"neighbourhood", "allotments", "quarter">>,
     sublocality |-> <<"city_district", "district", "borough", "suburb",
                       "subdivision">>]

Sentinel(field) ==
    IF field \in {"street_num", "street"} THEN UnknownEMPTY ELSE UnknownREGULAR

RECURSIVE FirstMatch(_, _, _)
FirstMatch(d, chain, sentinel) ==
    IF chain = <<>> THEN sentinel
    ELSE IF Head(chain) \in DOMAIN d THEN d[Head(chain)]
    ELSE FirstMatch(d, Tail(chain), sentinel)

Resolved(d) ==
    [field \in DOMAIN Chains \cup {"address", "address_eu"} |->
        LET number == FirstMatch(d, Chains.street_num, Sentinel("street_num"))
            street == FirstMatch(d, Chains.street, Sentinel("street"))
        IN  CASE field = "address" -> number \o " " \o street
              [] field = "address_eu" -> street \o " " \o number
              [] OTHER -> FirstMatch(d, Chains[field], Sentinel(field))]

T_C16 ==
    [][\A w \in Workers :
          (/\ Reads(w)
           /\ op[w] = "reverse_geocode"
           /\ Answer(response[w].status, response[w].body) = "address"
           /\ BodyObject(response[w].body)["address"].t = "obj") =>
              LET d == BodyObject(response[w].body)["address"].o
              IN  /\ ret'[w] = Dts(Resolved(d))
                  /\ d = [road |-> "Main St", house_number |-> "42"] =>
                        /\ ret'[w].v.address = "42 Main St"
                        /\ ret'[w].v.address_eu = "Main St 42"
                        /\ \A f \in DOMAIN Chains \ {"street_num", "street"} :
                              ret'[w].v[f] = UnknownREGULAR]_vars

W_C16 ==
    \E w \in Workers :
        /\ pc[w] = "return"
        /\ op[w] = "reverse_geocode"
        /\ answer[w] = "address"
        /\ ret[w].t = "dts"
        /\ ret[w].v.street_num = "42"
        /\ ret[w].v.street = "Main St"
        /\ ret[w].v.address = "42 Main St"
        /\ ret[w].v.address_eu = "Main St 42"
        /\ ret[w].v.postal = UnknownREGULAR

\* C17: of the workers that called geocode together, before any of them
\* was let in, one is in the method at a time while the others wait; once
\* one of them has dispatched for an address and returned without failure,
\* another one that called with that address makes no dispatch of its own
\* and returns the value stored, so that one timestamp was recorded in all.
T_C17 ==
    calls = Cardinality(Workers) =>
        \A w \in Workers :
            /\ pc[w] \in InBody =>
                  \A v \in Workers \ {w} : pc[v] \in {"acquire", "idle"}
            /\ op[w] = "geocode" /\ LookupKey(w) \in DOMAIN first =>
                  /\ pc[w] \notin Dispatching
                  /\ appended[w] = 0
                  /\ Len(recorded) = 1
                  /\ LookupKey(w).key \in DOMAIN geocode_hist
                  /\ geocode_hist[LookupKey(w).key] = first[LookupKey(w)].ret
                  /\ pc[w] = "return" => ret[w] = geocode_hist[LookupKey(w).key]

W_C17 ==
    \E w, v \in Workers :
        /\ calls = Cardinality(Workers)
        /\ pc[v] = "idle"
        /\ pc[w] = "return"
        /\ op[w] = "geocode"
        /\ appended[w] = 0
        /\ LookupKey(w) \in DOMAIN first
        /\ ret[w] = first[LookupKey(w)].ret
        /\ ret[w] # None
        /\ Len(recorded) = 1

\* C18: a geocode or reverse_geocode call that finds its key memoized
\* returns what the mapping holds, and neither that step nor its return
\* changes the window, the timestamps recorded or a mapping; the call has
\* computed no elapsed time and has no sleep to wait for.
T_C18 ==
    [][\A w \in Workers :
          (/\ op[w] \in {"geocode", "reverse_geocode"}
           /\ \/ pc[w] = "check" /\ pc'[w] = "return"
              \/ pc[w] = "return" /\ appended[w] = 0 /\ pc'[w] = "idle") =>
              /\ window' = window
              /\ recorded' = recorded
              /\ geocode_hist' = geocode_hist
              /\ reverse_geocode_hist' = reverse_geocode_hist
              /\ appended'[w] = 0
              /\ elapsed_time[w] = <<>> /\ elapsed_time'[w] = <<>>
              /\ wake[w] = 0 /\ wake'[w] = 0
              /\ pc'[w] = "return" => ~CacheMiss(w) /\ exc'[w] = "none"]_vars

W_C18 ==
    \E w \in Workers :
        /\ pc[w] = "return"
        /\ op[w] = "geocode"
        /\ appended[w] = 0
        /\ ~CacheMiss(w)
        /\ ret[w] = geocode_hist[StrKey(Lower(arg[w].s))]
        /\ Len(window) = 1
        /\ Len(recorded) = 1
        /\ window[1] = 0

T_C20 ==
    [][/\ Len(recorded') # Len(recorded) =>
             /\ Len(recorded') = Len(recorded) + 1
             /\ \E w \in Workers : pc[w] = "append" /\ pc'[w] \in {"send", "return"}
       /\ \A w \in Workers :
             pc[w] = "append" /\ pc'[w] # "append" =>
                 /\ Len(recorded') = Len(recorded) + 1
                 /\ window'[Len(window')] = 0
       /\ \A w \in Workers :
             (pc[w] \in {"send", "receive"} /\ pc'[w] = "return" /\ exc'[w] # "none") =>
                 /\ appended[w] = 1 /\ appended'[w] = 1
                 /\ window' = window
                 /\ recorded' = recorded
                 /\ window # <<>>
                 /\ window[Len(window)] = recorded[Len(recorded)]]_vars

W_C20 ==
    \E w \in Workers :
        /\ pc[w] = "return"
        /\ op[w] = "geocode"
        /\ answer[w] = "status"
        /\ exc[w] = "HTTPError"
        /\ appended[w] = 1
        /\ Len(window) = queries_per_second
        /\ Len(recorded) = queries_per_second
        /\ returned # {}
        /\ first = <<>>


====
